---- MODULE Spec2Model ----
(***************************************************************************)
(* OnlyChords (src/src/App.js): the tonal helpers (getScaleChords,          *)
(* transposeChord), the document handlers of the App component and the     *)
(* export walk flattenForExport.                                           *)
(*                                                                         *)
(* A JavaScript string is a sequence of one-character strings, so that     *)
(* split, join, substring, the root regex and concatenation are computed   *)
(* character by character.  JavaScript arrays are 0-based; the sequences   *)
(* here are 1-based and every index is shifted where it is used.           *)
(***************************************************************************)
EXTENDS Integers, Sequences, FiniteSets, TLC

VARIABLES
    \* ---- App component state (useState, App.js 136-147) ----
    scaleKey,       \* useState('C')
    scaleType,      \* useState('major')
    lines,          \* useState([]): sequence of [id, text, chords]
    lyrics,         \* useState(''): the lyrics blob
    armedChord,     \* useState(null): Null or a chord name
    editorStep,     \* useState('lyrics'): "lyrics" or "chords"
    now,            \* the value Date.now() returns (milliseconds)
    \* ---- bookkeeping about the run (not program state) ----
    last,           \* the handler that ran last, and whether it found its target
    lockBlob,       \* the blob a lockLyrics saw, while only lock/unlock followed
    unlockLines,    \* the lines an unlockLyrics saw, while only lock/unlock followed
    nTransposes,    \* number of handleTranspose calls so far (capped)
    \* ---- application of the tonal helpers to drawn inputs ----
    tPc, tName, tAmount, tOut, tBack, tKey, tType, tChords,
    \* ---- flattenForExport on a drawn line ----
    fPc, fLine, fWidth, fPerm, sortedChords, wI, chordLineText, lastCharIndex,
    fOut, fOutPerm,
    \* ---- the session store and React's render cycle (App.js 156-182, 245-252) ----
    store,          \* localStorage item under LOCAL_STORAGE_KEY
    pending,        \* the state updates queued for the next render
    sPc,            \* "mount", "render", "save" or "idle"
    sIdx,           \* number of mount effects that have run
    rec0,           \* the store as the app found it at start
    sHist,          \* what the session went through last: "mount", "user", "cleared"
    base,           \* the root note and the lines as loaded, before any transposition
    shift,          \* semitones transposed since the load, modulo 12
    \* ---- the measurement effect and an export click (App.js 188-201, 282-298) ----
    charWidthRef,   \* useRef(0)
    xPc,            \* "mounted", "measured" or "exported"
    xOut            \* what the export click produced

appVars == <<scaleKey, scaleType, lines, lyrics, armedChord, editorStep, now,
             last, lockBlob, unlockLines, nTransposes>>
tonalVars == <<tPc, tName, tAmount, tOut, tBack, tKey, tType, tChords>>
flatVars == <<fPc, fLine, fWidth, fPerm, sortedChords, wI, chordLineText,
              lastCharIndex, fOut, fOutPerm>>
sessVars == <<store, pending, sPc, sIdx, rec0, sHist, base, shift>>
measVars == <<charWidthRef, xPc, xOut>>
vars == <<appVars, tonalVars, flatVars, sessVars, measVars>>

-----------------------------------------------------------------------------
(* Bounds of the model *)

\* transposition amounts are drawn from -MaxAmount..MaxAmount
MaxAmount == 25
\* the textarea holds at most MaxLyricsLen characters
MaxLyricsLen == 2
\* at most MaxChords placements in the document
MaxChords == 2
\* Date.now() runs over 0..MaxClock
MaxClock == 1
\* at most MaxTransposes clicks on the transpose buttons
MaxTransposes == 1
\* the exported line holds at most MaxFlatChords placements
MaxFlatChords == 3

-----------------------------------------------------------------------------
(* Constants, App.js 5-9 *)

NOTES == << <<"C">>, <<"C","#">>, <<"D">>, <<"D","#">>, <<"E">>, <<"F">>,
            <<"F","#">>, <<"G">>, <<"G","#">>, <<"A">>, <<"A","#">>, <<"B">> >>
MAJOR_SCALE_INTERVALS == <<0, 2, 4, 5, 7, 9, 11>>
MINOR_SCALE_INTERVALS == <<0, 2, 3, 5, 7, 8, 10>>
MAJOR_CHORD_TYPES == <<"major", "minor", "minor", "major", "major", "minor", "diminished">>
MINOR_CHORD_TYPES == <<"minor", "diminished", "major", "minor", "minor", "major", "major">>

\* null (armedChord): falsy, and never equal to a chord name (names are non-empty)
Null == <<>>

\* what string concatenation makes of the value undefined
Undefined == <<"u","n","d","e","f","i","n","e","d">>

\* JavaScript's % : the remainder takes the sign of the dividend
JsRem(a, b) == IF a >= 0 THEN a % b ELSE 0 - ((0 - a) % b)

\* Array.prototype.indexOf on NOTES: 0-based index, -1 when absent
NotesIndexOf(s) ==
    IF \E i \in 1..Len(NOTES) : NOTES[i] = s
    THEN (CHOOSE i \in 1..Len(NOTES) : NOTES[i] = s) - 1
    ELSE -1

\* NOTES[i] used in a string concatenation: an index outside 0..11 reads undefined
NotesAt(i) == IF i \in 0..(Len(NOTES) - 1) THEN NOTES[i + 1] ELSE Undefined

\* String.prototype.substring(from) for 0 <= from
Substring(s, from) == IF from >= Len(s) THEN <<>> ELSE SubSeq(s, from + 1, Len(s))

\* chordName.match(/^[A-G]#?/): the matched prefix, <<>> when there is no match
RootLetters == {"A", "B", "C", "D", "E", "F", "G"}
MatchRoot(chordName) ==
    IF Len(chordName) = 0 \/ chordName[1] \notin RootLetters THEN <<>>
    ELSE IF Len(chordName) >= 2 /\ chordName[2] = "#" THEN SubSeq(chordName, 1, 2)
    ELSE SubSeq(chordName, 1, 1)

\* the note index of one scale degree, App.js 18
ScaleNoteIndexNoWrap(rootNoteIndex, interval) == rootNoteIndex + interval
ScaleNoteIndex(rootNoteIndex, interval) == JsRem(rootNoteIndex + interval, 12)

\* getScaleChords, App.js 13-24
getScaleChords(key, type) ==
    LET rootNoteIndex == NotesIndexOf(key)
        intervals == IF type = "major" THEN MAJOR_SCALE_INTERVALS ELSE MINOR_SCALE_INTERVALS
        chordTypes == IF type = "major" THEN MAJOR_CHORD_TYPES ELSE MINOR_CHORD_TYPES
    IN  [i \in 1..Len(intervals) |->
            LET noteIndex == ScaleNoteIndex(rootNoteIndex, intervals[i])
                suffix == IF chordTypes[i] = "minor" THEN <<"m">>
                          ELSE IF chordTypes[i] = "diminished" THEN <<"d","i","m">>
                          ELSE <<>>
            IN  [name |-> NotesAt(noteIndex) \o suffix, type |-> chordTypes[i]]]

\* the new root index of transposeChord, App.js 34
NewIndex(currentIndex, amount) == JsRem(currentIndex + amount + 12, 12)

\* transposeChord, App.js 26-37
transposeChord(chordName, amount) ==
    LET root == MatchRoot(chordName)
        quality == Substring(chordName, Len(root))
        currentIndex == NotesIndexOf(root)
    IN  IF root = <<>> THEN chordName
        ELSE IF currentIndex = -1 THEN chordName
        ELSE NotesAt(NewIndex(currentIndex, amount)) \o quality

-----------------------------------------------------------------------------
(* Strings and the Line records, App.js 254-272 *)

\* index of the first "\n" of s, 0 when there is none
FirstNewline(s) ==
    IF \E i \in 1..Len(s) : s[i] = "\n"
    THEN CHOOSE i \in 1..Len(s) : s[i] = "\n" /\ \A j \in 1..(i - 1) : s[j] # "\n"
    ELSE 0

\* String.prototype.split('\n'): always at least one segment
RECURSIVE SplitLines(_)
SplitLines(s) ==
    LET k == FirstNewline(s)
    IN  IF k = 0 THEN <<s>>
        ELSE <<SubSeq(s, 1, k - 1)>> \o SplitLines(SubSeq(s, k + 1, Len(s)))

\* Array.prototype.join('\n')
RECURSIVE JoinLines(_)
JoinLines(texts) ==
    IF Len(texts) = 0 THEN <<>>
    ELSE IF Len(texts) = 1 THEN texts[1]
    ELSE texts[1] \o <<"\n">> \o JoinLines(Tail(texts))

\* lines.find(l => l.id === index) ? existingLine.chords : [], App.js 257-261
ExistingChordsNone(ls, index) == <<>>
ExistingChords(ls, index) ==
    IF \E j \in 1..Len(ls) : ls[j].id = index
    THEN ls[CHOOSE j \in 1..Len(ls) :
                ls[j].id = index /\ \A k \in 1..(j - 1) : ls[k].id # index].chords
    ELSE <<>>

\* lyrics.split('\n'), App.js 255
LyricLinesNoTrailing(blob) ==
    LET segs == SplitLines(blob)
    IN  IF Len(segs) > 1 /\ segs[Len(segs)] = <<>> THEN SubSeq(segs, 1, Len(segs) - 1)
        ELSE segs
LyricLines(blob) == SplitLines(blob)

\* newLines of lockLyrics, App.js 255-263
LockLines(blob, ls) ==
    LET lyricLines == LyricLines(blob)
    IN  [i \in 1..Len(lyricLines) |->
            [id |-> i - 1, text |-> lyricLines[i], chords |-> ExistingChords(ls, i - 1)]]

\* currentLyrics of unlockLyrics, App.js 269
UnlockBlobFirstLine(ls) == IF Len(ls) = 0 THEN <<>> ELSE ls[1].text
UnlockBlob(ls) == JoinLines([i \in 1..Len(ls) |-> ls[i].text])

\* the updater of handleLineClick, App.js 233-235
AddChord(ls, lineId, chord) ==
    [i \in 1..Len(ls) |->
        IF ls[i].id = lineId THEN [ls[i] EXCEPT !.chords = Append(@, chord)] ELSE ls[i]]

\* the updater of handleChordClick, App.js 240-242
RemoveChordAnyLine(ls, lineId, chordId) ==
    [i \in 1..Len(ls) |->
        [ls[i] EXCEPT !.chords = SelectSeq(@, LAMBDA c : c.id # chordId)]]
RemoveChord(ls, lineId, chordId) ==
    [i \in 1..Len(ls) |->
        IF ls[i].id = lineId
        THEN [ls[i] EXCEPT !.chords = SelectSeq(@, LAMBDA c : c.id # chordId)]
        ELSE ls[i]]

\* the lines updater of handleTranspose, App.js 275-278
TransposeFirstLine(ls, amount) ==
    [i \in 1..Len(ls) |->
        IF i > 1 THEN ls[i]
        ELSE [ls[i] EXCEPT !.chords =
                [j \in 1..Len(@) |-> [@[j] EXCEPT !.text = transposeChord(@, amount)]]]]
TransposeLines(ls, amount) ==
    [i \in 1..Len(ls) |->
        [ls[i] EXCEPT !.chords =
            [j \in 1..Len(@) |-> [@[j] EXCEPT !.text = transposeChord(@, amount)]]]]

-----------------------------------------------------------------------------
(* flattenForExport, App.js 282-298 *)

\* Math.round(position / charWidth) for position >= 0 and charWidth > 0, App.js 289
RoundDiv(position, charWidth) == (2 * position + charWidth) \div (2 * charWidth)

\* ' '.repeat(n)
Spaces(n) == [i \in 1..n |-> " "]

Max(a, b) == IF a >= b THEN a ELSE b

\* [...line.chords].sort((a, b) => a.position - b.position), App.js 286:
\* Array.prototype.sort is stable, equal positions keep their insertion order
RECURSIVE InsertByPosition(_, _)
InsertByPosition(sorted, c) ==
    IF Len(sorted) = 0 THEN <<c>>
    ELSE IF sorted[Len(sorted)].position <= c.position THEN Append(sorted, c)
    ELSE Append(InsertByPosition(SubSeq(sorted, 1, Len(sorted) - 1), c), sorted[Len(sorted)])
RECURSIVE SortFrom(_, _)
SortFrom(sorted, rest) ==
    IF Len(rest) = 0 THEN sorted ELSE SortFrom(InsertByPosition(sorted, rest[1]), Tail(rest))
NoSort(chords) == chords
SortByPosition(chords) == SortFrom(<<>>, chords)

\* one turn of sortedChords.forEach, App.js 288-293, on [text, last] =
\* [chordLineText, lastCharIndex]
WalkStep(acc, chord, charWidth) ==
    LET charIndex == RoundDiv(chord.position, charWidth)
        spaces == Max(0, charIndex - acc.last)
    IN  [text |-> acc.text \o Spaces(spaces) \o chord.text,
         last |-> charIndex + Len(chord.text)]

RECURSIVE WalkFrom(_, _, _)
WalkFrom(acc, chords, charWidth) ==
    IF Len(chords) = 0 THEN acc
    ELSE WalkFrom(WalkStep(acc, chords[1], charWidth), Tail(chords), charWidth)

\* chordLineText of one line, App.js 285-293
ChordLine(line, charWidth) ==
    WalkFrom([text |-> <<>>, last |-> 0], SortByPosition(line.chords), charWidth).text

\* flattenForExport, App.js 282-298
RECURSIVE flattenForExport(_, _)
flattenForExport(ls, charWidth) ==
    IF Len(ls) = 0 THEN <<>>
    ELSE ChordLine(ls[1], charWidth) \o <<"\n">> \o ls[1].text \o <<"\n">>
             \o flattenForExport(Tail(ls), charWidth)

-----------------------------------------------------------------------------
(* Inputs of the handlers *)

\* characters typed into the textarea
LyricChars == {"a", "\n"}
Blobs == UNION {[1..n -> LyricChars] : n \in 0..MaxLyricsLen}
\* options of the two selects, App.js 353-362
KeyOptions == {NOTES[1]}
TypeOptions == {"major", "minor"}
\* digit keys handled by handleKeyDown, App.js 207-210
Digits == {1}
\* e.clientX - rect.left of a click on a chord line
ClickPositions == {12}
\* line ids and chord ids a click handler is called with
LineIds == 0..MaxLyricsLen
ChordIds == 0..(MaxClock + 1)
\* the two transpose buttons, App.js 367-368
TransposeAmounts == {-1, 1}

\* number of placements of the document
RECURSIVE CountChords(_)
CountChords(ls) == IF Len(ls) = 0 THEN 0 ELSE Len(ls[1].chords) + CountChords(Tail(ls))

HasChord(ls, lineId, chordId) ==
    \E i \in 1..Len(ls) : ls[i].id = lineId /\ \E j \in 1..Len(ls[i].chords) : ls[i].chords[j].id = chordId

Ev(op, hit) == [op |-> op, hit |-> hit]
NoSnap == [set |-> FALSE, v |-> <<>>]
Snap(v) == [set |-> TRUE, v |-> v]

TonalIdle ==
    /\ tPc = "idle" /\ tName = <<>> /\ tAmount = 0 /\ tOut = <<>> /\ tBack = <<>>
    /\ tKey = <<>> /\ tType = "major" /\ tChords = <<>>
FlatIdle ==
    /\ fPc = "idle" /\ fLine = [id |-> 0, text |-> <<>>, chords |-> <<>>] /\ fWidth = 1
    /\ fPerm = <<>> /\ sortedChords = <<>> /\ wI = 0 /\ chordLineText = <<>>
    /\ lastCharIndex = 0 /\ fOut = <<>> /\ fOutPerm = <<>>
\* the object literal of the save effect, App.js 175
SessionData(k, t, ls, ly, st) ==
    [scaleKey |-> k, scaleType |-> t, lines |-> ls, lyrics |-> ly, editorStep |-> st]

\* the state of the first render, App.js 136-140
DefaultData == SessionData(NOTES[1], "major", <<>>, <<>>, "lyrics")

\* no item in the store, nothing queued
NoItem == [has |-> FALSE, item |-> <<>>]
NoUpdate == [op |-> "none", amount |-> 0, next |-> DefaultData]
SessIdle ==
    /\ store = NoItem /\ pending = NoUpdate /\ sPc = "off" /\ sIdx = 0
    /\ rec0 = NoItem /\ sHist = "mount" /\ shift = 0
    /\ base = [key |-> NOTES[1], lines |-> <<>>]
MeasIdle ==
    /\ charWidthRef = 0 /\ xPc = "off" /\ xOut = [error |-> FALSE, columns |-> <<>>]
AppIdle ==
    /\ scaleKey = NOTES[1] /\ scaleType = "major" /\ lines = <<>> /\ lyrics = <<>>
    /\ armedChord = Null /\ editorStep = "lyrics" /\ now = 0
    /\ last = Ev("init", FALSE) /\ lockBlob = NoSnap /\ unlockLines = NoSnap
    /\ nTransposes = 0

-----------------------------------------------------------------------------
(* The App component: state after the first render, and its handlers *)

\* useState initial values, App.js 136-143
Init == AppIdle /\ TonalIdle /\ FlatIdle /\ SessIdle /\ MeasIdle

\* textarea onChange, App.js 414 (the textarea is rendered in the lyrics step only)
SetLyrics(text) ==
    /\ editorStep = "lyrics"
    /\ lyrics' = text
    /\ last' = Ev("edit", FALSE)
    /\ lockBlob' = NoSnap /\ unlockLines' = NoSnap
    /\ UNCHANGED <<scaleKey, scaleType, lines, armedChord, editorStep, now, nTransposes>>

\* select onChange, App.js 353
SetScaleKey(k) ==
    /\ scaleKey' = k
    /\ last' = Ev("edit", FALSE)
    /\ lockBlob' = NoSnap /\ unlockLines' = NoSnap
    /\ UNCHANGED <<scaleType, lines, lyrics, armedChord, editorStep, now, nTransposes>>

\* select onChange, App.js 359
SetScaleType(t) ==
    /\ scaleType' = t
    /\ last' = Ev("edit", FALSE)
    /\ lockBlob' = NoSnap /\ unlockLines' = NoSnap
    /\ UNCHANGED <<scaleKey, lines, lyrics, armedChord, editorStep, now, nTransposes>>

\* toggleArmChord, App.js 225-227
ToggleArm(prev, chordName) == IF prev = chordName THEN Null ELSE chordName

\* handleKeyDown with a digit key, App.js 207-210
KeyDigit(d) ==
    LET diatonicChords == getScaleChords(scaleKey, scaleType)
    IN  /\ armedChord' = IF d \in 1..Len(diatonicChords)
                         THEN ToggleArm(armedChord, diatonicChords[d].name)
                         ELSE armedChord
        /\ last' = Ev("arm", FALSE)
        /\ lockBlob' = NoSnap /\ unlockLines' = NoSnap
        /\ UNCHANGED <<scaleKey, scaleType, lines, lyrics, editorStep, now, nTransposes>>

\* handleKeyDown with Escape, App.js 211-214
KeyEscape ==
    /\ armedChord' = Null
    /\ last' = Ev("arm", FALSE)
    /\ lockBlob' = NoSnap /\ unlockLines' = NoSnap
    /\ UNCHANGED <<scaleKey, scaleType, lines, lyrics, editorStep, now, nTransposes>>

\* handleLineClick, App.js 229-236 (chord lines are clickable in the chords step only)
HandleLineClick(lineId, position) ==
    /\ editorStep = "chords"
    /\ CountChords(lines) < MaxChords
    /\ lines' = IF armedChord = Null THEN lines
                ELSE AddChord(lines, lineId,
                              [id |-> now, text |-> armedChord, position |-> position])
    /\ last' = Ev("lineClick", armedChord # Null)
    /\ lockBlob' = NoSnap /\ unlockLines' = NoSnap
    /\ UNCHANGED <<scaleKey, scaleType, lyrics, armedChord, editorStep, now, nTransposes>>

\* handleChordClick, App.js 238-243
HandleChordClick(lineId, chordId) ==
    /\ editorStep = "chords"
    /\ lines' = RemoveChord(lines, lineId, chordId)
    /\ last' = Ev("chordClick", HasChord(lines, lineId, chordId))
    /\ lockBlob' = NoSnap /\ unlockLines' = NoSnap
    /\ UNCHANGED <<scaleKey, scaleType, lyrics, armedChord, editorStep, now, nTransposes>>

\* clearEditor, App.js 245-252
ClearEditor ==
    /\ lyrics' = <<>>
    /\ lines' = <<>>
    /\ armedChord' = Null
    /\ editorStep' = "lyrics"
    /\ last' = Ev("clear", FALSE)
    /\ lockBlob' = NoSnap /\ unlockLines' = NoSnap
    /\ UNCHANGED <<scaleKey, scaleType, now, nTransposes>>

\* lockLyrics, App.js 254-266 (the button is rendered in the lyrics step only)
LockLyrics ==
    /\ editorStep = "lyrics"
    /\ lines' = LockLines(lyrics, lines)
    /\ editorStep' = "chords"
    /\ last' = Ev("lock", FALSE)
    /\ lockBlob' = Snap(lyrics)
    /\ UNCHANGED <<scaleKey, scaleType, lyrics, armedChord, now, unlockLines, nTransposes>>

\* unlockLyrics, App.js 268-272 (the button is rendered in the chords step only)
UnlockLyrics ==
    /\ editorStep = "chords"
    /\ lyrics' = UnlockBlob(lines)
    /\ editorStep' = "lyrics"
    /\ last' = Ev("unlock", FALSE)
    /\ unlockLines' = Snap(lines)
    /\ UNCHANGED <<scaleKey, scaleType, lines, armedChord, now, lockBlob, nTransposes>>

\* handleTranspose, App.js 274-280
HandleTranspose(amount) ==
    /\ nTransposes < MaxTransposes
    /\ nTransposes' = nTransposes + 1
    /\ lines' = TransposeLines(lines, amount)
    /\ scaleKey' = transposeChord(scaleKey, amount)
    /\ last' = Ev("transpose", FALSE)
    /\ lockBlob' = NoSnap /\ unlockLines' = NoSnap
    /\ UNCHANGED <<scaleType, lyrics, armedChord, editorStep, now>>

\* a millisecond passes: Date.now() of App.js 234 returns the next value
Tick ==
    /\ now < MaxClock
    /\ now' = now + 1
    /\ UNCHANGED <<scaleKey, scaleType, lines, lyrics, armedChord, editorStep,
                   last, lockBlob, unlockLines, nTransposes>>

Next ==
    \/ (\E text \in Blobs : SetLyrics(text)) /\ UNCHANGED <<tonalVars, flatVars, sessVars, measVars>>
    \/ (\E k \in KeyOptions : SetScaleKey(k)) /\ UNCHANGED <<tonalVars, flatVars, sessVars, measVars>>
    \/ (\E t \in TypeOptions : SetScaleType(t)) /\ UNCHANGED <<tonalVars, flatVars, sessVars, measVars>>
    \/ (\E d \in Digits : KeyDigit(d)) /\ UNCHANGED <<tonalVars, flatVars, sessVars, measVars>>
    \/ KeyEscape /\ UNCHANGED <<tonalVars, flatVars, sessVars, measVars>>
    \/ (\E l \in LineIds, p \in ClickPositions : HandleLineClick(l, p))
            /\ UNCHANGED <<tonalVars, flatVars, sessVars, measVars>>
    \/ (\E l \in LineIds, c \in ChordIds : HandleChordClick(l, c))
            /\ UNCHANGED <<tonalVars, flatVars, sessVars, measVars>>
    \/ ClearEditor /\ UNCHANGED <<tonalVars, flatVars, sessVars, measVars>>
    \/ LockLyrics /\ UNCHANGED <<tonalVars, flatVars, sessVars, measVars>>
    \/ UnlockLyrics /\ UNCHANGED <<tonalVars, flatVars, sessVars, measVars>>
    \/ (\E a \in TransposeAmounts : HandleTranspose(a))
            /\ UNCHANGED <<tonalVars, flatVars, sessVars, measVars>>
    \/ Tick /\ UNCHANGED <<tonalVars, flatVars, sessVars, measVars>>

Spec == Init /\ [][Next]_vars

-----------------------------------------------------------------------------
(* The tonal helpers applied to drawn inputs *)

\* quality suffixes of the drawn chord names (the root regex leaves them alone)
Qualities == {<<>>, <<"m">>, <<"d","i","m">>, <<"7">>}
ChordNames == {NOTES[i] \o q : i \in 1..Len(NOTES), q \in Qualities}
Amounts == (0 - MaxAmount)..MaxAmount
NoteNames == {NOTES[i] : i \in 1..Len(NOTES)}

TonalInit ==
    /\ AppIdle /\ FlatIdle /\ SessIdle /\ MeasIdle
    /\ tPc \in {"transpose", "scale"}
    /\ tOut = <<>> /\ tBack = <<>> /\ tChords = <<>>
    /\ IF tPc = "transpose"
       THEN tName \in ChordNames /\ tAmount \in Amounts /\ tKey = <<>> /\ tType = "major"
       ELSE tName = <<>> /\ tAmount = 0 /\ tKey \in NoteNames /\ tType \in TypeOptions

\* transposeChord(tName, tAmount)
TransposeThere ==
    /\ tPc = "transpose"
    /\ tOut' = transposeChord(tName, tAmount)
    /\ tPc' = "there"
    /\ UNCHANGED <<tName, tAmount, tBack, tKey, tType, tChords>>

\* transposeChord(transposeChord(tName, tAmount), -tAmount)
TransposeBack ==
    /\ tPc = "there"
    /\ tBack' = transposeChord(tOut, 0 - tAmount)
    /\ tPc' = "back"
    /\ UNCHANGED <<tName, tAmount, tOut, tKey, tType, tChords>>

\* getScaleChords(tKey, tType)
ScaleChords ==
    /\ tPc = "scale"
    /\ tChords' = getScaleChords(tKey, tType)
    /\ tPc' = "chords"
    /\ UNCHANGED <<tName, tAmount, tOut, tBack, tKey, tType>>

TonalNext ==
    \/ TransposeThere /\ UNCHANGED <<appVars, flatVars, sessVars, measVars>>
    \/ TransposeBack /\ UNCHANGED <<appVars, flatVars, sessVars, measVars>>
    \/ ScaleChords /\ UNCHANGED <<appVars, flatVars, sessVars, measVars>>

SpecTonal == TonalInit /\ [][TonalNext]_vars

\* the mathematical modulo, result in 0..11
MathMod12(k) == k % 12

\* C1: for every valid chord name c and every integer k,
\* transposeChord(transposeChord(c, k), -k) = c.
C1_RoundTrip == tPc = "back" => tBack = tName

\* C2: for every valid chord name and every integer k, transposeChord(name, k)
\* equals transposeChord(name, k mod 12) with the mathematical modulo: the new
\* root is one of the 12 notes, the quality suffix is kept, and
\* transposeChord(name, 12) = name.
C2_ModTwelve ==
    tPc \in {"there", "back"} =>
        /\ tOut = transposeChord(tName, MathMod12(tAmount))
        /\ \E i \in 1..Len(NOTES) :
              tOut = NOTES[i] \o Substring(tName, Len(MatchRoot(tName)))
        /\ (tAmount = 12 => tOut = tName)

\* the fixed tables of the claim: suffix of degree i
C3_Suffix(type, i) ==
    LET q == IF type = "major"
             THEN << <<>>, <<"m">>, <<"m">>, <<>>, <<>>, <<"m">>, <<"d","i","m">> >>
             ELSE << <<"m">>, <<"d","i","m">>, <<>>, <<"m">>, <<"m">>, <<>>, <<>> >>
    IN  q[i]
C3_Interval(type, i) ==
    IF type = "major" THEN <<0, 2, 4, 5, 7, 9, 11>>[i] ELSE <<0, 2, 3, 5, 7, 8, 10>>[i]

\* C3: getScaleChords(r, type) returns exactly 7 chords in order, chord i with
\* root (index(r) + interval[i]) mod 12 and the suffix of the fixed table, so
\* chord 0 has root r; for C major the names are C, Dm, Em, F, G, Am, Bdim.
C3_ScaleChords ==
    tPc = "chords" =>
        /\ Len(tChords) = 7
        /\ \A i \in 1..7 :
              tChords[i].name =
                  NOTES[((NotesIndexOf(tKey) + C3_Interval(tType, i)) % 12) + 1]
                      \o C3_Suffix(tType, i)
        /\ MatchRoot(tChords[1].name) = tKey
        /\ (tKey = <<"C">> /\ tType = "major" =>
              [i \in 1..7 |-> tChords[i].name] =
                  << <<"C">>, <<"D","m">>, <<"E","m">>, <<"F">>, <<"G">>, <<"A","m">>,
                     <<"B","d","i","m">> >>)

C3_Witness ==
    /\ tPc = "chords" /\ tKey = <<"A","#">> /\ tType = "minor"
    /\ tChords[7].name = <<"G","#">>

-----------------------------------------------------------------------------
(* flattenForExport applied to a drawn line *)

FlatTexts == {<<"G">>, <<"A","m">>}
FlatPositions == {0, 10, 40}
\* charWidthRef.current after the measurement, App.js 199
FlatWidths == {8, 10}
FlatPlacements == [text : FlatTexts, position : FlatPositions]
FlatChordSeqs ==
    UNION {{[i \in 1..n |-> [id |-> i, text |-> f[i].text, position |-> f[i].position]] :
                f \in [1..n -> FlatPlacements]} : n \in 0..MaxFlatChords}
InsertionOrders(n) == {p \in [1..n -> 1..n] : \A i, j \in 1..n : p[i] = p[j] => i = j}

FlatInit ==
    /\ AppIdle /\ TonalIdle /\ SessIdle /\ MeasIdle
    /\ fPc = "start"
    /\ fLine \in [id : {0}, text : {<<"a","a">>}, chords : FlatChordSeqs]
    /\ fWidth \in FlatWidths
    /\ fPerm = <<>> /\ sortedChords = <<>> /\ wI = 0 /\ chordLineText = <<>>
    /\ lastCharIndex = 0 /\ fOut = <<>> /\ fOutPerm = <<>>

\* the same placements, inserted in another order
Permute(p) ==
    /\ fPc = "start"
    /\ fPerm' = [i \in 1..Len(fLine.chords) |-> fLine.chords[p[i]]]
    /\ fPc' = "permuted"
    /\ UNCHANGED <<fLine, fWidth, sortedChords, wI, chordLineText, lastCharIndex, fOut, fOutPerm>>

\* App.js 285-287: the sorted copy, the empty chord line, the cursor at 0
StartWalk ==
    /\ fPc = "permuted"
    /\ sortedChords' = SortByPosition(fLine.chords)
    /\ wI' = 0 /\ chordLineText' = <<>> /\ lastCharIndex' = 0
    /\ fPc' = "walk"
    /\ UNCHANGED <<fLine, fWidth, fPerm, fOut, fOutPerm>>

\* App.js 288-293: one placement of the walk
WalkOne ==
    /\ fPc = "walk" /\ wI < Len(sortedChords)
    /\ LET acc == WalkStep([text |-> chordLineText, last |-> lastCharIndex],
                           sortedChords[wI + 1], fWidth)
       IN  chordLineText' = acc.text /\ lastCharIndex' = acc.last
    /\ wI' = wI + 1
    /\ UNCHANGED <<fPc, fLine, fWidth, fPerm, sortedChords, fOut, fOutPerm>>

\* flattenForExport() on the line, and on the line with the other insertion order
Export ==
    /\ fPc = "walk" /\ wI = Len(sortedChords)
    /\ fOut' = flattenForExport(<<fLine>>, fWidth)
    /\ fOutPerm' = flattenForExport(<<[fLine EXCEPT !.chords = fPerm]>>, fWidth)
    /\ fPc' = "done"
    /\ UNCHANGED <<fLine, fWidth, fPerm, sortedChords, wI, chordLineText, lastCharIndex>>

FlatNext ==
    \/ (\E p \in InsertionOrders(Len(fLine.chords)) : Permute(p))
            /\ UNCHANGED <<appVars, tonalVars, sessVars, measVars>>
    \/ StartWalk /\ UNCHANGED <<appVars, tonalVars, sessVars, measVars>>
    \/ WalkOne /\ UNCHANGED <<appVars, tonalVars, sessVars, measVars>>
    \/ Export /\ UNCHANGED <<appVars, tonalVars, sessVars, measVars>>

SpecFlatten == FlatInit /\ [][FlatNext]_vars

\* C4: during the walk the cursor equals the number of characters already
\* written to the chord line (it advances by padding + length(chordText)), so a
\* chord whose target column is at or beyond the end of the chord line starts
\* exactly at its target column, also after an overlapping chord.
C4_CursorIsWritten ==
    fPc = "walk" =>
        /\ lastCharIndex = Len(chordLineText)
        /\ wI >= 1 =>
              LET chord == sortedChords[wI]
                  target == RoundDiv(chord.position, fWidth)
                  start == Len(chordLineText) - Len(chord.text)
              IN  \/ start = target
                  \* pushed right by an overlap only: no padding was written
                  \/ start > target /\ chordLineText[start] # " "

\* C5: every permutation of the insertion order of a line's placements yields
\* the same string from flattenForExport, also when placements share an offset
\* and differ in text.
C5_AnyOrder == fPc = "done" => fOut = fOutPerm

\* placements that share a pixel offset carry the same chord text
C5_TiesAgree(chords) ==
    \A i, j \in 1..Len(chords) :
        chords[i].position = chords[j].position => chords[i].text = chords[j].text

\* C5 (amended): when the placements that share a pixel offset have the same
\* chord text, every permutation of the insertion order yields the same string
\* from flattenForExport.
C5_AnyOrderNoTies ==
    (fPc = "done" /\ C5_TiesAgree(fLine.chords)) => fOut = fOutPerm

C5_Witness ==
    /\ fPc = "done" /\ C5_TiesAgree(fLine.chords)
    /\ Len(fLine.chords) = 3 /\ fPerm # fLine.chords
    /\ fLine.chords[1].position > fLine.chords[2].position
    /\ fLine.chords[2].position = fLine.chords[3].position
    /\ fOut = fOutPerm

-----------------------------------------------------------------------------
(* The document handlers *)

\* C6: lockLyrics followed directly by unlockLyrics leaves the lyrics blob equal
\* to the blob before the lock (empty, with empty lines or with a trailing
\* newline), whatever Line records existed before.
C6_LockUnlockBlob ==
    (lockBlob.set /\ editorStep = "lyrics") => lyrics = lockBlob.v

C6_Witness ==
    /\ lockBlob.set /\ editorStep = "lyrics" /\ last.op = "unlock"
    /\ lyrics = <<"a", "\n">>
    /\ CountChords(lines) > 0

NewlineCount(s) == Cardinality({i \in 1..Len(s) : s[i] = "\n"})

\* C7: lockLyrics produces one Line per newline-split segment of the blob, in
\* order, with id = segment index; segment i takes the placements of the
\* previous Line at index i when there is one and none otherwise; previous
\* Lines beyond the segment count are dropped; the mode becomes "chords".
C7_LockLines ==
    [][(editorStep = "lyrics" /\ editorStep' = "chords") =>
          /\ Len(lines') = NewlineCount(lyrics) + 1
          /\ \A i \in 1..Len(lines') :
                /\ lines'[i].id = i - 1
                /\ lines'[i].text = SplitLines(lyrics)[i]
                /\ "\n" \notin {lines'[i].text[k] : k \in 1..Len(lines'[i].text)}
                /\ lines'[i].chords = IF i <= Len(lines) THEN lines[i].chords ELSE <<>>
          /\ lyrics' = lyrics]_vars

C7_Witness ==
    /\ last.op = "lock" /\ editorStep = "chords"
    /\ Len(lines) = 2 /\ Len(lines[1].chords) = 0 /\ Len(lines[2].chords) > 0

\* C8: unlockLyrics leaves the Line sequence and every placement unchanged, and
\* unlockLyrics followed directly by lockLyrics restores a Line sequence with
\* identical placements on every line.
C8_UnlockLock ==
    unlockLines.set => lines = unlockLines.v

C8_Witness ==
    /\ unlockLines.set /\ last.op = "lock" /\ editorStep = "chords"
    /\ Len(lines) = 3 /\ Len(lines[3].chords) > 0

\* C9: removing a placement id that is not on the given line (or on a line id
\* that does not exist) changes no line and no placement, and removing the same
\* id twice is the same as removing it once.
C9_RemoveAbsent ==
    /\ [](\A l \in LineIds, c \in ChordIds :
            /\ RemoveChord(RemoveChord(lines, l, c), l, c) = RemoveChord(lines, l, c)
            /\ ~HasChord(RemoveChord(lines, l, c), l, c))
    /\ [][(last'.op = "chordClick" /\ ~last'.hit) =>
              /\ lines' = lines /\ lyrics' = lyrics /\ editorStep' = editorStep
              /\ scaleKey' = scaleKey /\ scaleType' = scaleType
              /\ armedChord' = armedChord]_vars

C9_Witness ==
    /\ last.op = "chordClick" /\ ~last.hit
    /\ Len(lines) >= 2 /\ Len(lines[1].chords) > 0 /\ Len(lines[2].chords) > 0

\* C10: in every reachable state the placement ids within a line are pairwise
\* distinct, also when two placements are added without the clock advancing.
C10_UniqueIds ==
    \A i \in 1..Len(lines) :
        \A j, k \in 1..Len(lines[i].chords) :
            j # k => lines[i].chords[j].id # lines[i].chords[k].id

\* C12: from any reachable state, clear leaves the initial empty state: empty
\* blob, no Line, mode "lyrics", no chord armed, and the scale root and scale
\* type at their initial values.
C12_ClearResetsAll ==
    last.op = "clear" =>
        /\ lyrics = <<>> /\ lines = <<>> /\ editorStep = "lyrics" /\ armedChord = Null
        /\ scaleKey = <<"C">> /\ scaleType = "major"

-----------------------------------------------------------------------------
(* The session store under React's render cycle: a handler or an effect queues
   its state updates, the next render applies them together, and the effects
   whose dependencies changed run after that render.  App.js 156-182, 245-252 *)

\* JSON.stringify of the saved object: its members in the order of the literal
Stringify(data) ==
    << <<"scaleKey", data.scaleKey>>, <<"scaleType", data.scaleType>>,
       <<"lines", data.lines>>, <<"lyrics", data.lyrics>>,
       <<"editorStep", data.editorStep>> >>

\* JSON.parse throws on text that is not JSON, App.js 160
IsJson(item) == \A i \in 1..Len(item) : Len(item[i]) = 2

\* data.<key> of the parsed object: undefined when the member is missing
Member(item, key) ==
    IF \E i \in 1..Len(item) : item[i][1] = key
    THEN [found |-> TRUE, value |-> item[CHOOSE i \in 1..Len(item) : item[i][1] = key][2]]
    ELSE [found |-> FALSE, value |-> <<>>]

\* data.<key> || fallback: undefined and the empty string are falsy, an array is not
OrElse(m, falsy, fallback) == IF m.found /\ m.value # falsy THEN m.value ELSE fallback

\* the values the load effect passes to the setters, App.js 161-165
LoadedData(item) ==
    SessionData(OrElse(Member(item, "scaleKey"), <<>>, NOTES[1]),
                OrElse(Member(item, "scaleType"), "", "major"),
                IF Member(item, "lines").found THEN Member(item, "lines").value ELSE <<>>,
                OrElse(Member(item, "lyrics"), <<>>, <<>>),
                OrElse(Member(item, "editorStep"), "", "lyrics"))

\* the state as the last render shows it
Rendered == SessionData(scaleKey, scaleType, lines, lyrics, editorStep)

\* localStorage.setItem(LOCAL_STORAGE_KEY, JSON.stringify(dataToSave)), App.js 175-176
SavedItem == [has |-> TRUE, item |-> Stringify(Rendered)]

\* the effects in the order the component declares them, App.js 156 and 173
MountEffectsSaveFirst == <<"save", "load">>
MountEffects == <<"load", "save">>

\* the handlers and effects that call setLines: the array they pass is a new
\* object, so the save effect's dependency `lines` has changed, App.js 164, 247,
\* 264, 275
SetsLines(op) == op \in {"load", "clear", "lock", "transpose"}

\* sessions the app has written earlier
SongLines ==
    << [id |-> 0, text |-> <<"a">>,
        chords |-> << [id |-> 1, text |-> <<"G">>, position |-> 12] >>],
       [id |-> 1, text |-> <<"a">>,
        chords |-> << [id |-> 2, text |-> <<"A", "m">>, position |-> 0] >>] >>
SavedSessions ==
    { SessionData(<<"C">>, "major", SongLines, <<"a", "\n", "a">>, "chords"),
      SessionData(<<"C">>, "major", SongLines, <<"a", "\n", "a">>, "lyrics"),
      SessionData(<<"A">>, "minor", SubSeq(SongLines, 1, 1), <<"a">>, "chords"),
      DefaultData }
\* an object with one member only, and text that is not JSON
StoredItems ==
    {Stringify(d) : d \in SavedSessions}
        \cup { << <<"lyrics", <<"a">>>> >>, << <<"{">> >> }

sessFrame ==
    <<armedChord, now, last, lockBlob, unlockLines, nTransposes,
      tonalVars, flatVars, measVars>>

\* the app starts: the first render shows the useState defaults, its effects
\* have not run yet
SessInit ==
    /\ AppIdle /\ TonalIdle /\ FlatIdle /\ MeasIdle
    /\ store \in {NoItem} \cup {[has |-> TRUE, item |-> it] : it \in StoredItems}
    /\ rec0 = store
    /\ pending = NoUpdate /\ sPc = "mount" /\ sIdx = 0 /\ sHist = "mount"
    /\ shift = 0 /\ base = [key |-> NOTES[1], lines |-> <<>>]

\* load effect, App.js 156-170
LoadEffect ==
    /\ sPc = "mount" /\ sIdx < Len(MountEffects) /\ MountEffects[sIdx + 1] = "load"
    /\ pending' = IF store.has /\ IsJson(store.item)
                  THEN [op |-> "load", amount |-> 0, next |-> LoadedData(store.item)]
                  ELSE pending
    /\ sIdx' = sIdx + 1
    /\ UNCHANGED <<scaleKey, scaleType, lines, lyrics, editorStep,
                   store, sPc, rec0, sHist, base, shift>>

\* save effect after the first render, App.js 173-182
SaveOnMount ==
    /\ sPc = "mount" /\ sIdx < Len(MountEffects) /\ MountEffects[sIdx + 1] = "save"
    /\ store' = SavedItem
    /\ sIdx' = sIdx + 1
    /\ UNCHANGED <<scaleKey, scaleType, lines, lyrics, editorStep,
                   pending, sPc, rec0, sHist, base, shift>>

\* the mount effects are done: React renders again if they queued an update
MountDone ==
    /\ sPc = "mount" /\ sIdx = Len(MountEffects)
    /\ sPc' = IF pending.op = "none" THEN "idle" ELSE "render"
    /\ UNCHANGED <<scaleKey, scaleType, lines, lyrics, editorStep,
                   store, pending, sIdx, rec0, sHist, base, shift>>

\* a render applies the queued updates together; the save effect is scheduled
\* when one of [scaleKey, scaleType, lines, lyrics, editorStep] changed, App.js 182
Rerender ==
    /\ sPc = "render"
    /\ scaleKey' = pending.next.scaleKey
    /\ scaleType' = pending.next.scaleType
    /\ lines' = pending.next.lines
    /\ lyrics' = pending.next.lyrics
    /\ editorStep' = pending.next.editorStep
    /\ sPc' = IF \/ SetsLines(pending.op)
                 \/ pending.next.scaleKey # scaleKey
                 \/ pending.next.scaleType # scaleType
                 \/ pending.next.lyrics # lyrics
                 \/ pending.next.editorStep # editorStep
              THEN "save" ELSE "idle"
    /\ shift' = IF pending.op = "transpose"
                THEN (shift + pending.amount + 12) % 12 ELSE shift
    /\ base' = IF pending.op = "load"
               THEN [key |-> pending.next.scaleKey, lines |-> pending.next.lines]
               ELSE base
    /\ pending' = NoUpdate
    /\ UNCHANGED <<store, sIdx, rec0, sHist>>

\* save effect after a later render, App.js 173-182
SaveEffect ==
    /\ sPc = "save"
    /\ store' = SavedItem
    /\ sPc' = "idle"
    /\ UNCHANGED <<scaleKey, scaleType, lines, lyrics, editorStep,
                   pending, sIdx, rec0, sHist, base, shift>>

\* a handler calls its setters: the values wait for the next render
Queue(op, amount, next, hist) ==
    /\ sPc = "idle"
    /\ pending' = [op |-> op, amount |-> amount, next |-> next]
    /\ sPc' = "render"
    /\ sHist' = hist
    /\ UNCHANGED <<scaleKey, scaleType, lines, lyrics, editorStep,
                   sIdx, rec0, base, shift>>

\* textarea onChange, App.js 414
QueueSetLyrics(text) ==
    /\ editorStep = "lyrics"
    /\ Queue("lyrics", 0, [Rendered EXCEPT !.lyrics = text], "user")
    /\ UNCHANGED store

\* the scale type select, App.js 359
QueueSetScaleType(t) ==
    /\ Queue("type", 0, [Rendered EXCEPT !.scaleType = t], "user")
    /\ UNCHANGED store

\* lockLyrics, App.js 254-266
QueueLock ==
    /\ editorStep = "lyrics"
    /\ Queue("lock", 0, [Rendered EXCEPT !.lines = LockLines(lyrics, lines),
                                         !.editorStep = "chords"], "user")
    /\ UNCHANGED store

\* unlockLyrics, App.js 268-272
QueueUnlock ==
    /\ editorStep = "chords"
    /\ Queue("unlock", 0, [Rendered EXCEPT !.lyrics = UnlockBlob(lines),
                                           !.editorStep = "lyrics"], "user")
    /\ UNCHANGED store

\* handleTranspose, App.js 274-280
QueueTranspose(amount) ==
    /\ Queue("transpose", amount,
             [Rendered EXCEPT !.lines = TransposeLines(lines, amount),
                              !.scaleKey = transposeChord(scaleKey, amount)], "user")
    /\ UNCHANGED store

\* clearEditor, App.js 245-252: the setters queue, removeItem acts at once
QueueClear ==
    /\ Queue("clear", 0, [Rendered EXCEPT !.lyrics = <<>>, !.lines = <<>>,
                                          !.editorStep = "lyrics"], "cleared")
    /\ store' = NoItem

SessNext ==
    \/ LoadEffect /\ UNCHANGED sessFrame
    \/ SaveOnMount /\ UNCHANGED sessFrame
    \/ MountDone /\ UNCHANGED sessFrame
    \/ Rerender /\ UNCHANGED sessFrame
    \/ SaveEffect /\ UNCHANGED sessFrame
    \/ (\E text \in Blobs : QueueSetLyrics(text)) /\ UNCHANGED sessFrame
    \/ (\E t \in TypeOptions : QueueSetScaleType(t)) /\ UNCHANGED sessFrame
    \/ QueueLock /\ UNCHANGED sessFrame
    \/ QueueUnlock /\ UNCHANGED sessFrame
    \/ (\E a \in TransposeAmounts : QueueTranspose(a)) /\ UNCHANGED sessFrame
    \/ QueueClear /\ UNCHANGED sessFrame

SpecSession == SessInit /\ [][SessNext]_vars

\* C11: the root note and every placement text are the loaded ones transposed
\* by the same number of semitones in every reachable state, in either editor
\* mode: no state shows one of them transposed and the other not.  Root C with
\* a placement G, two semitones up, shows root D and placement A.
C11_TransposeTogether ==
    /\ scaleKey = transposeChord(base.key, shift)
    /\ \A i \in 1..Len(lines) : \A j \in 1..Len(lines[i].chords) :
          /\ i <= Len(base.lines) /\ j <= Len(base.lines[i].chords)
          /\ lines[i].chords[j].text = transposeChord(base.lines[i].chords[j].text, shift)
    /\ (/\ base.key = <<"C">> /\ shift = 2 /\ Len(lines) > 0 /\ Len(base.lines) > 0
        /\ Len(lines[1].chords) > 0 /\ base.lines[1].chords[1].text = <<"G">>)
          => (scaleKey = <<"D">> /\ lines[1].chords[1].text = <<"A">>)

C11_Witness ==
    /\ sPc = "idle" /\ sHist = "user" /\ editorStep = "lyrics"
    /\ base.key = <<"C">> /\ shift = 2
    /\ scaleKey = <<"D">> /\ Len(lines) = 2
    /\ lines[1].chords[1].text = <<"A">> /\ lines[2].chords[1].text = <<"B", "m">>

\* C14: the app started on a session it had saved; when the mount effects and
\* the renders they cause are over, the state shows that session and the store
\* holds it again.
C14_SessionRestored ==
    (/\ sPc = "idle" /\ sHist = "mount"
     /\ rec0.has /\ rec0.item \in {Stringify(d) : d \in SavedSessions})
        => (Rendered = LoadedData(rec0.item) /\ store = rec0
            /\ Stringify(Rendered) = rec0.item)

C14_Witness ==
    /\ sPc = "idle" /\ sHist = "mount" /\ rec0.has /\ store = rec0
    /\ scaleKey = <<"A">> /\ scaleType = "minor" /\ editorStep = "chords"
    /\ Len(lines) = 1 /\ lyrics = <<"a">>

\* C15: after a clear and the render and effects it causes, the store holds no
\* item under the app's key.
C15_StaysRemoved ==
    (sPc = "idle" /\ sHist = "cleared") => ~store.has

-----------------------------------------------------------------------------
(* The measured character width and an export: flattenForExport computed on
   JavaScript numbers, where a division by 0 gives Infinity or NaN.
   App.js 147, 188-201, 282-317 *)

Num(n) == [kind |-> "num", n |-> n]
Infinity == [kind |-> "inf", n |-> 0]
MinusInfinity == [kind |-> "-inf", n |-> 0]
NaN == [kind |-> "nan", n |-> 0]

\* Math.round(chord.position / charWidthRef.current), App.js 289: x / 0 is
\* Infinity for x > 0 and NaN for x = 0, and Math.round keeps both
CharIndex(position, charWidth) ==
    IF charWidth = 0 THEN (IF position = 0 THEN NaN ELSE Infinity)
    ELSE Num(RoundDiv(position, charWidth))

\* charIndex - lastCharIndex
Minus(a, b) ==
    IF a.kind = "nan" \/ b.kind = "nan" THEN NaN
    ELSE IF a.kind = "num" /\ b.kind = "num" THEN Num(a.n - b.n)
    ELSE IF a.kind = b.kind THEN NaN
    ELSE IF a.kind = "inf" \/ b.kind = "-inf" THEN Infinity
    ELSE MinusInfinity

\* Math.max(0, x), App.js 290: NaN stays NaN
MaxZero(x) ==
    IF x.kind = "num" THEN Num(Max(0, x.n))
    ELSE IF x.kind = "-inf" THEN Num(0)
    ELSE x

\* ' '.repeat(count), App.js 291: a RangeError for Infinity, NaN counts as 0
RepeatThrows(count) == count.kind = "inf"
Repeat(count) == IF count.kind = "num" THEN Spaces(count.n) ELSE <<>>

\* charIndex + chord.text.length, App.js 292
PlusLength(charIndex, length) ==
    IF charIndex.kind = "num" THEN Num(charIndex.n + length) ELSE charIndex

\* one round of sortedChords.forEach, App.js 288-293
ExportStep(acc, chord, charWidth) ==
    LET charIndex == CharIndex(chord.position, charWidth)
        spaces == MaxZero(Minus(charIndex, acc.last))
    IN  IF acc.error THEN acc
        ELSE IF RepeatThrows(spaces)
        THEN [acc EXCEPT !.error = TRUE, !.columns = Append(@, charIndex)]
        ELSE [error |-> FALSE,
              text |-> acc.text \o Repeat(spaces) \o chord.text,
              last |-> PlusLength(charIndex, Len(chord.text)),
              columns |-> Append(acc.columns, charIndex)]

RECURSIVE ExportChords(_, _, _)
ExportChords(acc, chords, charWidth) ==
    IF Len(chords) = 0 THEN acc
    ELSE ExportChords(ExportStep(acc, chords[1], charWidth), Tail(chords), charWidth)

\* lines.forEach of flattenForExport, App.js 284-296: an exception ends the call
RECURSIVE ExportLines(_, _, _)
ExportLines(out, ls, charWidth) ==
    IF Len(ls) = 0 \/ out.error THEN out
    ELSE LET walked == ExportChords([error |-> FALSE, text |-> <<>>, last |-> Num(0),
                                     columns |-> out.columns],
                                    SortByPosition(ls[1].chords), charWidth)
         IN  ExportLines([error |-> walked.error, columns |-> walked.columns],
                         Tail(ls), charWidth)

\* what getBoundingClientRect().width / sampleString.length can be, App.js 199:
\* 0 when the span has no layout box
MeasuredWidths == FlatWidths \cup {0}

\* one lyric line with its placements
MeasuredLines == {<<[id |-> 0, text |-> <<"a">>, chords |-> cs]>> : cs \in FlatChordSeqs}

measFrame ==
    <<scaleKey, scaleType, lyrics, armedChord, editorStep, now, last, lockBlob,
      unlockLines, nTransposes, tonalVars, flatVars, sessVars>>

\* the first render: charWidthRef = useRef(0), App.js 147
MeasInit ==
    /\ AppIdle /\ TonalIdle /\ FlatIdle /\ SessIdle
    /\ charWidthRef = 0 /\ xPc = "mounted" /\ xOut = [error |-> FALSE, columns |-> <<>>]

\* measure effect, App.js 188-201
MeasureEffect(width) ==
    /\ xPc = "mounted"
    /\ charWidthRef' = width
    /\ xPc' = "measured"
    /\ UNCHANGED <<lines, xOut>>

\* setLines(data.lines || []) of the load effect, rendered: App.js 164
RestoreLines(ls) ==
    /\ xPc = "measured"
    /\ lines' = ls
    /\ xPc' = "restored"
    /\ UNCHANGED <<charWidthRef, xOut>>

\* copyToClipboard or printSheet: flattenForExport() is called outside any try,
\* App.js 301 and 320
ExportClick ==
    /\ xPc = "restored"
    /\ xOut' = ExportLines([error |-> FALSE, columns |-> <<>>], lines, charWidthRef)
    /\ xPc' = "exported"
    /\ UNCHANGED <<lines, charWidthRef>>

MeasNext ==
    \/ (\E width \in MeasuredWidths : MeasureEffect(width)) /\ UNCHANGED measFrame
    \/ (\E ls \in MeasuredLines : RestoreLines(ls)) /\ UNCHANGED measFrame
    \/ ExportClick /\ UNCHANGED measFrame

SpecMeasure == MeasInit /\ [][MeasNext]_vars

\* C13: an export never computes with a character width of 0: it throws no
\* error and every column it computes is a finite integer, zero or more.
C13_NoDivideByZero ==
    xPc = "exported" =>
        /\ ~xOut.error
        /\ \A i \in 1..Len(xOut.columns) :
              xOut.columns[i].kind = "num" /\ xOut.columns[i].n >= 0

====
